---- MODULE Spec2Model ----
(***************************************************************************)
(* Job admission and worker dispatch of content-generation/server.py:      *)
(* POST /api/process (VideoProcessorHandler.handle_process), the helpers   *)
(* extract_video_id and check_existing_videos, the detached worker         *)
(* processes it starts and the two artifact directories they fill.         *)
(*                                                                         *)
(* Text is a sequence of one-character strings, so that strip() and the    *)
(* two regular expressions are computed character by character.            *)
(***************************************************************************)
EXTENDS Integers, Sequences, FiniteSets, TLC

\* ---------------------------------------------------------------- bounds

\* Requests the server accepts in one behaviour.
MaxBatches == 2
\* Entries of the "urls" list of one request.
MaxUrls == 2
\* Artifacts removed from the data directories by something other than the server.
MaxRemovals == 1
\* Writes of the workers to the shared log.
MaxOutputs == 1

\* ------------------------------------------------------------------ text

\* {11} in both patterns of extract_video_id.
IdLen == 11

\* [a-zA-Z0-9_-]
IdChars ==
  { "a","b","c","d","e","f","g","h","i","j","k","l","m","n","o","p","q","r",
    "s","t","u","v","w","x","y","z",
    "A","B","C","D","E","F","G","H","I","J","K","L","M","N","O","P","Q","R",
    "S","T","U","V","W","X","Y","Z",
    "0","1","2","3","4","5","6","7","8","9","_","-" }

\* The characters str.strip() removes (the ASCII ones).
Whitespace == { " ", "\t", "\n", "\r" }

\* youtube\.com\/watch\?v=
WatchMarker ==
  << "y","o","u","t","u","b","e",".","c","o","m","/","w","a","t","c","h","?","v","=" >>
\* youtu\.be\/
ShortMarker == << "y","o","u","t","u",".","b","e","/" >>
\* youtube\.com\/embed\/
EmbedMarker ==
  << "y","o","u","t","u","b","e",".","c","o","m","/","e","m","b","e","d","/" >>

\* The alternatives of the first pattern, in the order the pattern lists them.
Markers == << WatchMarker, ShortMarker, EmbedMarker >>

\* url.strip(): the text without its leading and trailing whitespace.
RECURSIVE LStrip(_)
LStrip(s) ==
  IF s # << >> /\ Head(s) \in Whitespace THEN LStrip(Tail(s)) ELSE s

RECURSIVE RStrip(_)
RStrip(s) ==
  IF s # << >> /\ s[Len(s)] \in Whitespace
  THEN RStrip(SubSeq(s, 1, Len(s) - 1))
  ELSE s

Strip(s) == RStrip(LStrip(s))

\* Whether s holds IdLen characters of the class from position p on.
IdAt(s, p) ==
  /\ p + IdLen - 1 <= Len(s)
  /\ \A k \in 0 .. IdLen - 1 : s[p + k] \in IdChars

\* Whether marker m stands at position p of s, followed by an ID.
MarkerAt(s, p, m) ==
  /\ p + Len(m) - 1 <= Len(s)
  /\ SubSeq(s, p, p + Len(m) - 1) = m
  /\ IdAt(s, p + Len(m))

\* re.search with the first pattern: the leftmost position where an
\* alternative matches, the first such alternative; group(1) is the ID.
\* << >> stands for "no match".
SearchUrl(s) ==
  LET hits == { p \in 1 .. Len(s) : \E i \in 1 .. Len(Markers) : MarkerAt(s, p, Markers[i]) }
  IN  IF hits = {} THEN << >>
      ELSE LET p == CHOOSE q \in hits : \A r \in hits : q <= r
               i == CHOOSE j \in 1 .. Len(Markers) :
                      /\ MarkerAt(s, p, Markers[j])
                      /\ \A l \in 1 .. j - 1 : ~MarkerAt(s, p, Markers[l])
               b == p + Len(Markers[i])
           IN  SubSeq(s, b, b + IdLen - 1)

\* SearchBare without the anchors: the text begins with an ID.
SearchBareUnanchored(s) ==
  IF IdAt(s, 1) THEN SubSeq(s, 1, IdLen) ELSE << >>

\* re.search with the second pattern, ^([a-zA-Z0-9_-]{11})$ : the whole text
\* is an ID; $ also matches before one final line feed.
SearchBare(s) ==
  IF /\ IdAt(s, 1)
     /\ \/ Len(s) = IdLen
        \/ Len(s) = IdLen + 1 /\ s[Len(s)] = "\n"
  THEN SubSeq(s, 1, IdLen)
  ELSE << >>

\* The patterns are tried in order and the first match wins; None is << >>.
extract_video_id(url) ==
  IF SearchUrl(url) # << >> THEN SearchUrl(url) ELSE SearchBare(url)

\* ExtractAll reporting the entry as it came, not the stripped text.
RECURSIVE ExtractAllReportingRaw(_, _, _)
ExtractAllReportingRaw(urls, ids, invalid) ==
  IF urls = << >> THEN [video_ids |-> ids, invalid_urls |-> invalid]
  ELSE LET url == Strip(Head(urls))
           video_id == extract_video_id(url)
       IN  IF url = << >> THEN ExtractAllReportingRaw(Tail(urls), ids, invalid)
           ELSE IF video_id # << >>
                THEN ExtractAllReportingRaw(Tail(urls), Append(ids, video_id), invalid)
                ELSE ExtractAllReportingRaw(Tail(urls), ids, Append(invalid, Head(urls)))

\* ExtractAll without "if not url: continue": a blank entry is reported.
RECURSIVE ExtractAllReportingBlanks(_, _, _)
ExtractAllReportingBlanks(urls, ids, invalid) ==
  IF urls = << >> THEN [video_ids |-> ids, invalid_urls |-> invalid]
  ELSE LET url == Strip(Head(urls))
           video_id == extract_video_id(url)
       IN  IF video_id # << >>
           THEN ExtractAllReportingBlanks(Tail(urls), Append(ids, video_id), invalid)
           ELSE ExtractAllReportingBlanks(Tail(urls), ids, Append(invalid, url))

\* ExtractAll leaving the loop at the first entry that is no reference.
RECURSIVE ExtractAllStoppingAtInvalid(_, _, _)
ExtractAllStoppingAtInvalid(urls, ids, invalid) ==
  IF urls = << >> THEN [video_ids |-> ids, invalid_urls |-> invalid]
  ELSE LET url == Strip(Head(urls))
           video_id == extract_video_id(url)
       IN  IF url = << >> THEN ExtractAllStoppingAtInvalid(Tail(urls), ids, invalid)
           ELSE IF video_id # << >>
                THEN ExtractAllStoppingAtInvalid(Tail(urls), Append(ids, video_id), invalid)
                ELSE [video_ids |-> ids, invalid_urls |-> Append(invalid, url)]

\* The extraction loop of handle_process over the "urls" list: each entry is
\* stripped, blank entries are skipped, the others add an ID to video_ids or
\* the stripped text to invalid_urls.
RECURSIVE ExtractAll(_, _, _)
ExtractAll(urls, ids, invalid) ==
  IF urls = << >> THEN [video_ids |-> ids, invalid_urls |-> invalid]
  ELSE LET url == Strip(Head(urls))
           video_id == extract_video_id(url)
       IN  IF url = << >> THEN ExtractAll(Tail(urls), ids, invalid)
           ELSE IF video_id # << >>
                THEN ExtractAll(Tail(urls), Append(ids, video_id), invalid)
                ELSE ExtractAll(Tail(urls), ids, Append(invalid, url))

\* ------------------------------------------------------------- storage

\* f'{video_id}.json'
FileName(video_id) == video_id \o << ".", "j", "s", "o", "n" >>

\* os.path.exists(os.path.join(dir, name)) for a directory given by its entries.
PathExists(dir, name) == name \in dir

\* Classify without its "elif has_raw" branch: an ID with only the raw
\* artifact is put in no list.
ClassifyWithoutRawOnly(existing, video_id, has_raw, has_transcribed) ==
  IF has_raw /\ has_transcribed
  THEN [existing EXCEPT !.both = Append(@, video_id)]
  ELSE IF has_transcribed /\ ~has_raw
       THEN [existing EXCEPT !.transcribed_lyrics = Append(@, video_id)]
       ELSE existing

\* One iteration of the loop of check_existing_videos: the if/elif chain that
\* appends video_id to at most one of the three lists.
Classify(existing, video_id, has_raw, has_transcribed) ==
  IF has_raw /\ has_transcribed
  THEN [existing EXCEPT !.both = Append(@, video_id)]
  ELSE IF has_raw
       THEN [existing EXCEPT !.raw_lyrics = Append(@, video_id)]
       ELSE IF has_transcribed
            THEN [existing EXCEPT !.transcribed_lyrics = Append(@, video_id)]
            ELSE existing

\* x in list
InList(x, list) == \E n \in 1 .. Len(list) : list[n] = x

\* NewVideoIds without the test of existing['both'].
RECURSIVE NewVideoIdsIgnoringBoth(_, _)
NewVideoIdsIgnoringBoth(ids, existing) ==
  IF ids = << >> THEN << >>
  ELSE LET vid == Head(ids)
           rest == NewVideoIdsIgnoringBoth(Tail(ids), existing)
       IN  IF /\ ~InList(vid, existing.raw_lyrics)
              /\ ~InList(vid, existing.transcribed_lyrics)
           THEN << vid >> \o rest
           ELSE rest

\* NewVideoIds putting each admitted ID in front of those admitted before it.
RECURSIVE NewVideoIdsNewestFirst(_, _)
NewVideoIdsNewestFirst(ids, existing) ==
  IF ids = << >> THEN << >>
  ELSE LET vid == Head(ids)
           rest == NewVideoIdsNewestFirst(Tail(ids), existing)
       IN  IF /\ ~InList(vid, existing.both)
              /\ ~InList(vid, existing.raw_lyrics)
              /\ ~InList(vid, existing.transcribed_lyrics)
           THEN rest \o << vid >>
           ELSE rest

\* [vid for vid in video_ids if vid not in existing['both'] and vid not in
\*  existing['raw_lyrics'] and vid not in existing['transcribed_lyrics']]
RECURSIVE NewVideoIds(_, _)
NewVideoIds(ids, existing) ==
  IF ids = << >> THEN << >>
  ELSE LET vid == Head(ids)
           rest == NewVideoIds(Tail(ids), existing)
       IN  IF /\ ~InList(vid, existing.both)
              /\ ~InList(vid, existing.raw_lyrics)
              /\ ~InList(vid, existing.transcribed_lyrics)
           THEN << vid >> \o rest
           ELSE rest


\* ------------------------------------------------------ worker runtime

NvmNode20_9 == "~/.nvm/versions/node/v20.9.0/bin/node"
NvmNode20_11 == "~/.nvm/versions/node/v20.11.0/bin/node"
NvmSh == "~/.nvm/nvm.sh"

\* The paths glob('~/.nvm/versions/node/v20*/bin/node') can return on the
\* modelled hosts, in the order sorted() puts them (character by character:
\* "v20.11.0" sorts before "v20.9.0").
NvmSorted == << NvmNode20_11, NvmNode20_9 >>

\* common_paths, in list order.
CommonPaths ==
  << "/usr/local/bin/node20", "/usr/bin/node20", "/opt/homebrew/bin/node20",
     "~/.nvm/versions/node/v20.0.0/bin/node",
     "~/.nvm/versions/node/v20.11.0/bin/node",
     "~/.nvm/versions/node/v20.10.0/bin/node" >>

\* node_cmd is None
NoCmd == "None"

\* ResolveNode trying common_paths before the nvm directory.
ResolveNodeKnownPathsFirst(paths) ==
  LET nvm_nodes == { n \in 1 .. Len(NvmSorted) : NvmSorted[n] \in paths }
      common == { n \in 1 .. Len(CommonPaths) : CommonPaths[n] \in paths }
  IN  IF common # {}
      THEN [node_cmd |-> CommonPaths[CHOOSE n \in common : \A m \in common : n <= m],
            use_nvm_bash |-> FALSE]
      ELSE IF nvm_nodes # {}
           THEN [node_cmd |-> NvmSorted[CHOOSE n \in nvm_nodes : \A m \in nvm_nodes : m <= n],
                 use_nvm_bash |-> FALSE]
           ELSE IF NvmSh \in paths
                THEN [node_cmd |-> NoCmd, use_nvm_bash |-> TRUE]
                ELSE [node_cmd |-> "node", use_nvm_bash |-> FALSE]

\* Methods 1 to 3 of the runtime search, on a host where the paths of
\* `paths` exist: the command, and whether the nvm shell wrapper is used.
ResolveNode(paths) ==
  LET nvm_nodes == { n \in 1 .. Len(NvmSorted) : NvmSorted[n] \in paths }
      common == { n \in 1 .. Len(CommonPaths) : CommonPaths[n] \in paths }
  IN  IF nvm_nodes # {}
      THEN [node_cmd |-> NvmSorted[CHOOSE n \in nvm_nodes : \A m \in nvm_nodes : m <= n],
            use_nvm_bash |-> FALSE]
      ELSE IF common # {}
           THEN [node_cmd |-> CommonPaths[CHOOSE n \in common : \A m \in common : n <= m],
                 use_nvm_bash |-> FALSE]
           ELSE IF NvmSh \in paths
                THEN [node_cmd |-> NoCmd, use_nvm_bash |-> TRUE]
                ELSE [node_cmd |-> "node", use_nvm_bash |-> FALSE]

\* video_id.replace("'", "'\"'\"'"): every single quote becomes '"'"'.
RECURSIVE ShellEscape(_)
ShellEscape(s) ==
  IF s = << >> THEN << >>
  ELSE (IF Head(s) = "'" THEN << "'", "\"", "'", "\"", "'" >> ELSE << Head(s) >>)
       \o ShellEscape(Tail(s))

\* cmd of one loop iteration: the program, and the ID it is given after
\* --skip-existing (in the bash -c text, the escaped ID).
BuildCmd(cmd, nvm_bash, video_id) ==
  IF nvm_bash
  THEN [program |-> "bash", node |-> "nvm use 20", flag |-> "--skip-existing",
        arg |-> ShellEscape(video_id)]
  ELSE IF cmd # NoCmd
       THEN [program |-> cmd, node |-> cmd, flag |-> "--skip-existing", arg |-> video_id]
       ELSE [program |-> "node", node |-> "node", flag |-> "--skip-existing", arg |-> video_id]

\* --------------------------------------------------------------- inputs

\* Two IDs and the texts a request is made of: a short link, a bare ID and
\* a text that is neither.
IdA == << "d","Q","w","4","w","9","W","g","X","c","Q" >>
IdB == << "a","-","b","_","c","-","d","_","e","-","1" >>
NotAUrl == << "n","o","t","-","a","-","u","r","l" >>

UrlPool == { ShortMarker \o IdA, IdB, NotAUrl }

\* The IDs the pool can yield, and their artifact names.
PoolIds == { extract_video_id(Strip(u)) : u \in UrlPool } \ { << >> }
PoolFiles == { FileName(v) : v \in PoolIds }

\* The "urls" lists of at most MaxUrls entries.
UrlLists == UNION { [1 .. n -> UrlPool] : n \in 0 .. MaxUrls }

\* The bodies of a request: one that json.loads rejects, or an object with
\* a "urls" list of strings.
BadJson == [json |-> FALSE, urls |-> << >>]
Bodies == { [json |-> TRUE, urls |-> u] : u \in UrlLists } \cup { BadJson }

\* Hosts the server is started on, each the set of runtime paths that exist.
NvmHost == { NvmNode20_9, NvmNode20_11, NvmSh }
Hosts ==
  { {},
    { NvmSh },
    { "/usr/bin/node20", NvmSh },
    { NvmNode20_9, NvmNode20_11, "/usr/local/bin/node20", NvmSh } }

\* ---------------------------------------------------------------- state

VARIABLES
  raw_lyrics,          \* entries of data/raw-lyrics
  transcribed_lyrics,  \* entries of data/transcribed-lyrics
  installed,           \* runtime paths that exist on the host
  log,                 \* logs/process.log, one element per write
  procs,               \* the worker processes started, in start order
  requests,            \* the bodies of the requests accepted so far
  responses,           \* the responses sent so far
  removals,            \* artifacts removed so far by others
  pc,                  \* where handle_process stands ("idle": serve_forever waits)
  video_ids, invalid_urls, existing, has_raw, vi, probed,
  new_video_ids, node_cmd, use_nvm_bash, process_pids, ni,
  at_receive           \* history: what storage held when the request came

store == << raw_lyrics, transcribed_lyrics >>
locals == << video_ids, invalid_urls, existing, has_raw, vi, probed,
             new_video_ids, node_cmd, use_nvm_bash, process_pids, ni, at_receive >>
vars == << raw_lyrics, transcribed_lyrics, installed, log, procs, requests,
           responses, removals, pc, locals >>

NoExisting == [raw_lyrics |-> << >>, transcribed_lyrics |-> << >>, both |-> << >>]
NoSnapshot == [repeats |-> {}, stored |-> FALSE]

\* The locals of handle_process outside a call.
LocalsIdle ==
  /\ video_ids = << >>
  /\ invalid_urls = << >>
  /\ existing = NoExisting
  /\ has_raw = FALSE
  /\ vi = 0
  /\ probed = << >>
  /\ new_video_ids = << >>
  /\ node_cmd = NoCmd
  /\ use_nvm_bash = FALSE
  /\ process_pids = << >>
  /\ ni = 0
  /\ at_receive = NoSnapshot

\* main(): the directories may already hold artifacts of earlier runs.
InitOn(hosts) ==
  /\ raw_lyrics \in SUBSET PoolFiles
  /\ transcribed_lyrics \in SUBSET PoolFiles
  /\ installed \in hosts
  /\ log = << >>
  /\ procs = << >>
  /\ requests = << >>
  /\ responses = << >>
  /\ removals = 0
  /\ pc = "idle"
  /\ LocalsIdle


\* ------------------------------------------------------- handle_process

\* The handler returns: its locals are gone and serve_forever waits again.
Return ==
  /\ pc' = "idle"
  /\ video_ids' = << >>
  /\ invalid_urls' = << >>
  /\ existing' = NoExisting
  /\ has_raw' = FALSE
  /\ vi' = 0
  /\ probed' = << >>
  /\ new_video_ids' = << >>
  /\ node_cmd' = NoCmd
  /\ use_nvm_bash' = FALSE
  /\ process_pids' = << >>
  /\ ni' = 0
  /\ at_receive' = NoSnapshot

\* send_json_response(data, status) for the request being handled.
SendJson(batch, data, status) ==
  responses' = Append(responses, [batch |-> batch, status |-> status, data |-> data])

\* Whether an artifact of video_id is stored in either directory.
Stored(video_id) ==
  FileName(video_id) \in raw_lyrics \cup transcribed_lyrics

\* The workers batch b started.
WorkersOf(b) == { p \in 1 .. Len(procs) : procs[p].batch = b }

\* History of a request with the given body and IDs, taken when it arrives:
\* the earlier batches with the same body all of whose workers have exited
\* with the artifact of their ID stored, and whether every ID of the request
\* has an artifact stored.
Snapshot(body, ids) ==
  [repeats |-> { b \in 1 .. Len(requests) :
                   /\ requests[b] = body
                   /\ \A p \in WorkersOf(b) :
                        procs[p].status = "exited" /\ Stored(procs[p].cmd.arg) },
   stored |-> \A n \in 1 .. Len(ids) : Stored(ids[n])]

\* Receive on a server that takes up a request in a thread of its own while
\* an earlier request is still being handled.
ReceiveWhileBusy(body) ==
  /\ Len(requests) < MaxBatches
  /\ requests' = Append(requests, body)
  /\ UNCHANGED << store, installed, log, procs, removals >>
  /\ LET batch == Len(requests) + 1
         ex == ExtractAll(body.urls, << >>, << >>)
     IN  IF ~body.json
         THEN /\ SendJson(batch, [success |-> FALSE, error |-> "Invalid JSON"], 400)
              /\ Return
         ELSE IF body.urls = << >>
         THEN /\ SendJson(batch, [success |-> FALSE, error |-> "No URLs provided"], 400)
              /\ Return
         ELSE IF ex.video_ids = << >>
         THEN /\ SendJson(batch, [success |-> FALSE,
                                  error |-> "No valid YouTube video IDs found",
                                  invalid_urls |-> ex.invalid_urls], 400)
              /\ Return
         ELSE /\ video_ids' = ex.video_ids
              /\ invalid_urls' = ex.invalid_urls
              /\ vi' = 1
              /\ at_receive' = Snapshot(body, ex.video_ids)
              /\ pc' = "probe_raw"
              /\ existing' = NoExisting
              /\ has_raw' = FALSE
              /\ probed' = << >>
              /\ new_video_ids' = << >>
              /\ node_cmd' = NoCmd
              /\ use_nvm_bash' = FALSE
              /\ process_pids' = << >>
              /\ ni' = 0
              /\ UNCHANGED responses

\* The request is read and decoded and the IDs are extracted; a body that
\* is not JSON, an empty list and a list without any ID are answered 400.
Receive(body) ==
  /\ pc = "idle"
  /\ Len(requests) < MaxBatches
  /\ requests' = Append(requests, body)
  /\ UNCHANGED << store, installed, log, procs, removals >>
  /\ LET batch == Len(requests) + 1
         ex == ExtractAll(body.urls, << >>, << >>)
     IN  IF ~body.json
         THEN /\ SendJson(batch, [success |-> FALSE, error |-> "Invalid JSON"], 400)
              /\ Return
         ELSE IF body.urls = << >>
         THEN /\ SendJson(batch, [success |-> FALSE, error |-> "No URLs provided"], 400)
              /\ Return
         ELSE IF ex.video_ids = << >>
         THEN /\ SendJson(batch, [success |-> FALSE,
                                  error |-> "No valid YouTube video IDs found",
                                  invalid_urls |-> ex.invalid_urls], 400)
              /\ Return
         ELSE /\ video_ids' = ex.video_ids
              /\ invalid_urls' = ex.invalid_urls
              /\ vi' = 1
              /\ at_receive' = Snapshot(body, ex.video_ids)
              /\ pc' = "probe_raw"
              /\ UNCHANGED << responses, existing, has_raw, probed, new_video_ids,
                              node_cmd, use_nvm_bash, process_pids, ni >>

\* ProbeRaw with a cache over requests: an ID an earlier batch was told to
\* have a raw artifact is taken to have it still.
ProbeRawCached ==
  /\ pc = "probe_raw"
  /\ has_raw' =
       \/ PathExists(raw_lyrics, FileName(video_ids[vi]))
       \/ \E n \in 1 .. Len(responses) :
            /\ "existing" \in DOMAIN responses[n].data
            /\ \/ InList(video_ids[vi], responses[n].data.existing.raw_lyrics)
               \/ InList(video_ids[vi], responses[n].data.existing.both)
  /\ pc' = "probe_transcribed"
  /\ UNCHANGED << store, installed, log, procs, requests, responses, removals,
                  video_ids, invalid_urls, existing, vi, probed, new_video_ids,
                  node_cmd, use_nvm_bash, process_pids, ni, at_receive >>

\* check_existing_videos, first test of one iteration: has_raw.
ProbeRaw ==
  /\ pc = "probe_raw"
  /\ has_raw' = PathExists(raw_lyrics, FileName(video_ids[vi]))
  /\ pc' = "probe_transcribed"
  /\ UNCHANGED << store, installed, log, procs, requests, responses, removals,
                  video_ids, invalid_urls, existing, vi, probed, new_video_ids,
                  node_cmd, use_nvm_bash, process_pids, ni, at_receive >>

\* check_existing_videos, second test of the iteration and the if/elif chain.
ProbeTranscribed ==
  /\ pc = "probe_transcribed"
  /\ LET video_id == video_ids[vi]
         has_transcribed == PathExists(transcribed_lyrics, FileName(video_id))
     IN  /\ existing' = Classify(existing, video_id, has_raw, has_transcribed)
         /\ probed' = Append(probed, [video_id |-> video_id, has_raw |-> has_raw,
                                      has_transcribed |-> has_transcribed])
  /\ vi' = vi + 1
  /\ pc' = IF vi = Len(video_ids) THEN "admit" ELSE "probe_raw"
  /\ UNCHANGED << store, installed, log, procs, requests, responses, removals,
                  video_ids, invalid_urls, has_raw, new_video_ids,
                  node_cmd, use_nvm_bash, process_pids, ni, at_receive >>

\* Admit with a record of the IDs dispatched: an ID a worker was ever
\* started for is not admitted again.
AdmitOncePerId ==
  /\ pc = "admit"
  /\ new_video_ids' =
       SelectSeq(NewVideoIds(video_ids, existing),
                 LAMBDA vid : ~\E p \in 1 .. Len(procs) : procs[p].cmd.arg = vid)
  /\ pc' = "admitted"
  /\ UNCHANGED << store, installed, log, procs, requests, responses, removals,
                  video_ids, invalid_urls, existing, has_raw, vi, probed,
                  node_cmd, use_nvm_bash, process_pids, ni, at_receive >>

\* Admit with a per-ID in-flight lock: an ID a running worker was started
\* for is not admitted.
AdmitWithInFlightLock ==
  /\ pc = "admit"
  /\ new_video_ids' =
       SelectSeq(NewVideoIds(video_ids, existing),
                 LAMBDA vid : ~\E p \in 1 .. Len(procs) :
                                 procs[p].status = "running" /\ procs[p].cmd.arg = vid)
  /\ pc' = "admitted"
  /\ UNCHANGED << store, installed, log, procs, requests, responses, removals,
                  video_ids, invalid_urls, existing, has_raw, vi, probed,
                  node_cmd, use_nvm_bash, process_pids, ni, at_receive >>

\* Admit without the filter: every valid ID is dispatched.
AdmitAll ==
  /\ pc = "admit"
  /\ new_video_ids' = video_ids
  /\ pc' = "admitted"
  /\ UNCHANGED << store, installed, log, procs, requests, responses, removals,
                  video_ids, invalid_urls, existing, has_raw, vi, probed,
                  node_cmd, use_nvm_bash, process_pids, ni, at_receive >>

\* new_video_ids is computed from the lists check_existing_videos returned.
Admit ==
  /\ pc = "admit"
  /\ new_video_ids' = NewVideoIds(video_ids, existing)
  /\ pc' = "admitted"
  /\ UNCHANGED << store, installed, log, procs, requests, responses, removals,
                  video_ids, invalid_urls, existing, has_raw, vi, probed,
                  node_cmd, use_nvm_bash, process_pids, ni, at_receive >>

\* "If all videos already exist, return early".
RespondSkipped ==
  /\ pc = "admitted"
  /\ new_video_ids = << >>
  /\ SendJson(Len(requests),
              [success |-> TRUE, message |-> "All videos already exist",
               video_ids |-> video_ids, invalid_urls |-> invalid_urls,
               existing |-> existing, skipped |-> TRUE], 200)
  /\ Return
  /\ UNCHANGED << store, installed, log, procs, requests, removals >>

\* The runtime search, once, before the loop.
Resolve ==
  /\ pc = "admitted"
  /\ new_video_ids # << >>
  /\ node_cmd' = ResolveNode(installed).node_cmd
  /\ use_nvm_bash' = ResolveNode(installed).use_nvm_bash
  /\ pc' = "header"
  /\ UNCHANGED << store, installed, log, procs, requests, responses, removals,
                  video_ids, invalid_urls, existing, has_raw, vi, probed,
                  new_video_ids, process_pids, ni, at_receive >>

\* WriteHeader opening the log with mode 'w': what the log held is lost.
WriteHeaderTruncating ==
  /\ pc = "header"
  /\ log' = << [kind |-> "batch", batch |-> Len(requests),
                count |-> Len(new_video_ids), ids |-> new_video_ids] >>
  /\ process_pids' = << >>
  /\ ni' = 1
  /\ pc' = "starting"
  /\ UNCHANGED << store, installed, procs, requests, responses, removals,
                  video_ids, invalid_urls, existing, has_raw, vi, probed,
                  new_video_ids, node_cmd, use_nvm_bash, at_receive >>

\* "Add separator and timestamp to log for this batch"; process_pids = [].
WriteHeader ==
  /\ pc = "header"
  /\ log' = Append(log, [kind |-> "batch", batch |-> Len(requests),
                         count |-> Len(new_video_ids), ids |-> new_video_ids])
  /\ process_pids' = << >>
  /\ ni' = 1
  /\ pc' = "starting"
  /\ UNCHANGED << store, installed, procs, requests, responses, removals,
                  video_ids, invalid_urls, existing, has_raw, vi, probed,
                  new_video_ids, node_cmd, use_nvm_bash, at_receive >>

\* One iteration of the dispatch loop, up to "Log this individual command".
WriteStarting ==
  /\ pc = "starting"
  /\ log' = Append(log, [kind |-> "starting", batch |-> Len(requests),
                         video_id |-> new_video_ids[ni],
                         cmd |-> BuildCmd(node_cmd, use_nvm_bash, new_video_ids[ni])])
  /\ pc' = "popen"
  /\ UNCHANGED << store, installed, procs, requests, responses, removals, locals >>

\* Popen with the runtime searched anew for every worker.
PopenReprobing ==
  /\ pc = "popen"
  /\ \/ /\ procs' = Append(procs, [pid |-> Len(procs) + 1, batch |-> Len(requests),
                                   cmd |-> BuildCmd(ResolveNode(installed).node_cmd,
                                                    ResolveNode(installed).use_nvm_bash,
                                                    new_video_ids[ni]),
                                   status |-> "running"])
        /\ process_pids' = Append(process_pids, Len(procs) + 1)
        /\ ni' = ni + 1
        /\ pc' = IF ni = Len(new_video_ids) THEN "respond" ELSE "starting"
     \/ /\ pc' = "except"
        /\ UNCHANGED << procs, process_pids, ni >>
  /\ UNCHANGED << store, installed, log, requests, responses, removals,
                  video_ids, invalid_urls, existing, has_raw, vi, probed,
                  new_video_ids, node_cmd, use_nvm_bash, at_receive >>

\* subprocess.Popen starts the worker and its pid is recorded, or it raises.
Popen ==
  /\ pc = "popen"
  /\ \/ /\ procs' = Append(procs, [pid |-> Len(procs) + 1, batch |-> Len(requests),
                                   cmd |-> BuildCmd(node_cmd, use_nvm_bash, new_video_ids[ni]),
                                   status |-> "running"])
        /\ process_pids' = Append(process_pids, Len(procs) + 1)
        /\ ni' = ni + 1
        /\ pc' = IF ni = Len(new_video_ids) THEN "respond" ELSE "starting"
     \/ /\ pc' = "except"
        /\ UNCHANGED << procs, process_pids, ni >>
  /\ UNCHANGED << store, installed, log, requests, responses, removals,
                  video_ids, invalid_urls, existing, has_raw, vi, probed,
                  new_video_ids, node_cmd, use_nvm_bash, at_receive >>

\* Respond after a wait() for every worker the batch started.
RespondAfterWait ==
  /\ pc = "respond"
  /\ \A n \in 1 .. Len(process_pids) : procs[process_pids[n]].status = "exited"
  /\ SendJson(Len(requests),
              [success |-> TRUE, message |-> "Processing new video(s) in background",
               video_ids |-> video_ids, new_video_ids |-> new_video_ids,
               invalid_urls |-> invalid_urls, existing |-> existing,
               process_ids |-> process_pids, log_file |-> "logs/process.log"], 200)
  /\ Return
  /\ UNCHANGED << store, installed, log, procs, requests, removals >>

\* The response after the loop.
Respond ==
  /\ pc = "respond"
  /\ SendJson(Len(requests),
              [success |-> TRUE, message |-> "Processing new video(s) in background",
               video_ids |-> video_ids, new_video_ids |-> new_video_ids,
               invalid_urls |-> invalid_urls, existing |-> existing,
               process_ids |-> process_pids, log_file |-> "logs/process.log"], 200)
  /\ Return
  /\ UNCHANGED << store, installed, log, procs, requests, removals >>

\* "except Exception as e" around the runtime search and the loop.
RespondFailed ==
  /\ pc = "except"
  /\ SendJson(Len(requests), [success |-> FALSE, error |-> "Failed to start process"], 500)
  /\ Return
  /\ UNCHANGED << store, installed, log, procs, requests, removals >>

\* A step of a call of handle_process that is under way.
HandlerStep ==
  \/ ProbeRaw
  \/ ProbeTranscribed
  \/ Admit
  \/ RespondSkipped
  \/ Resolve
  \/ WriteHeader
  \/ WriteStarting
  \/ Popen
  \/ Respond
  \/ RespondFailed

\* serve_forever: the next request is taken up when the handler has returned.
Handler ==
  \/ \E body \in Bodies : Receive(body)
  \/ HandlerStep

\* --------------------------------------------------------- environment

\* A running worker stores the artifact of its ID in one of the directories.
WorkerStore(p) ==
  /\ procs[p].status = "running"
  /\ \/ /\ raw_lyrics' = raw_lyrics \cup { FileName(procs[p].cmd.arg) }
        /\ UNCHANGED transcribed_lyrics
     \/ /\ transcribed_lyrics' = transcribed_lyrics \cup { FileName(procs[p].cmd.arg) }
        /\ UNCHANGED raw_lyrics
  /\ UNCHANGED << installed, log, procs, requests, responses, removals, pc, locals >>

\* A running worker ends.
WorkerExit(p) ==
  /\ procs[p].status = "running"
  /\ procs' = [procs EXCEPT ![p].status = "exited"]
  /\ UNCHANGED << store, installed, log, requests, responses, removals, pc, locals >>

\* Somebody removes an artifact from one of the directories.
RemoveArtifact(f) ==
  /\ removals < MaxRemovals
  /\ removals' = removals + 1
  /\ \/ /\ f \in raw_lyrics
        /\ raw_lyrics' = raw_lyrics \ { f }
        /\ UNCHANGED transcribed_lyrics
     \/ /\ f \in transcribed_lyrics
        /\ transcribed_lyrics' = transcribed_lyrics \ { f }
        /\ UNCHANGED raw_lyrics
  /\ UNCHANGED << installed, log, procs, requests, responses, pc, locals >>

Next ==
  \/ Handler
  \/ \E p \in 1 .. Len(procs) : WorkerStore(p)
  \/ \E p \in 1 .. Len(procs) : WorkerExit(p)

Init == InitOn({ NvmHost })

\* The server, its workers, and storage that only grows.
Spec == Init /\ [][Next]_vars

\* The same with artifacts being removed by others.
NextChurn ==
  \/ Next
  \/ \E f \in PoolFiles : RemoveArtifact(f)

\* The server started with no transcribed artifact stored.
InitChurn ==
  /\ InitOn({ NvmHost })
  /\ transcribed_lyrics = {}

SpecChurn == InitChurn /\ [][NextChurn]_vars


\* ------------------------------------------------------- the shared log

\* A running worker writes to its standard output, which is the log opened
\* for appending.
WorkerOutput(p) ==
  /\ procs[p].status = "running"
  /\ Cardinality({ n \in 1 .. Len(log) : log[n].kind = "output" }) < MaxOutputs
  /\ log' = Append(log, [kind |-> "output", batch |-> procs[p].batch, pid |-> p])
  /\ UNCHANGED << store, installed, procs, requests, responses, removals, pc, locals >>

\* The server started with empty data directories.
InitLog ==
  /\ InitOn({ NvmHost })
  /\ raw_lyrics = {}
  /\ transcribed_lyrics = {}

NextLog ==
  \/ Next
  \/ \E p \in 1 .. Len(procs) : WorkerOutput(p)

\* The server and workers that write to the log.
SpecLog == InitLog /\ [][NextLog]_vars

\* ---------------------------------------------------- the host's runtimes

\* Runtimes are installed or removed on the host: it becomes another of Hosts.
Reinstall(h) ==
  /\ h # installed
  /\ installed' = h
  /\ UNCHANGED << store, log, procs, requests, responses, removals, pc, locals >>

\* The server started on any of the hosts, no transcribed artifact stored.
InitRuntime ==
  /\ InitOn(Hosts)
  /\ transcribed_lyrics = {}

NextRuntime ==
  \/ Handler
  \/ \E h \in Hosts : Reinstall(h)

\* The server on a host whose runtimes change.
SpecRuntime == InitRuntime /\ [][NextRuntime]_vars

\* ----------------------------------------------------- intake of a batch

\* The texts of the "urls" list a client can send for one ID: the three
\* shapes, the bare ID with whitespace around it, empty and blank entries,
\* a text that is no reference (plain and with whitespace around it) and a
\* token of twelve characters.
PaddedId == << " " >> \o IdA \o << "\n" >>
PaddedNotAUrl == << " " >> \o NotAUrl \o << " " >>
LongToken == IdB \o << "x" >>

ExtractPool ==
  { WatchMarker \o IdA, ShortMarker \o IdA, IdA, PaddedId,
    << >>, << " ", "\t" >>, NotAUrl, PaddedNotAUrl, LongToken }

ExtractBodies ==
  { [json |-> TRUE, urls |-> u] :
      u \in UNION { [1 .. n -> ExtractPool] : n \in 0 .. MaxUrls } }

\* The server on a host whose raw-lyrics directory holds the artifact of
\* IdA or nothing.
InitExtract ==
  /\ InitOn({ NvmHost })
  /\ raw_lyrics \subseteq { FileName(IdA) }
  /\ transcribed_lyrics = {}

\* The handler alone: the workers it starts have not stored anything yet.
NextExtract ==
  \/ \E body \in ExtractBodies : Receive(body)
  \/ HandlerStep

SpecExtract == InitExtract /\ [][NextExtract]_vars


\* --------------------------------------------------------------- claims

Range(list) == { list[n] : n \in 1 .. Len(list) }
NoDuplicates(list) == \A m, n \in 1 .. Len(list) : list[m] = list[n] => m = n

\* The log entries batch b wrote.
LogOf(b) == { n \in 1 .. Len(log) : log[n].batch = b }

\* The number of the four classes video_id falls in, for the batch probed.
ClassesOf(video_id) ==
  (IF InList(video_id, new_video_ids) THEN 1 ELSE 0)
  + (IF InList(video_id, existing.raw_lyrics) THEN 1 ELSE 0)
  + (IF InList(video_id, existing.transcribed_lyrics) THEN 1 ELSE 0)
  + (IF InList(video_id, existing.both) THEN 1 ELSE 0)

\* Whether no probe of video_id by the batch found an artifact.
NeverSeen(video_id) ==
  \A n \in 1 .. Len(probed) :
    probed[n].video_id = video_id => ~probed[n].has_raw /\ ~probed[n].has_transcribed

\* C1: once a batch is admitted, every valid ID is in exactly one of the
\* classes absent/admitted, raw_lyrics, transcribed_lyrics, both, and the
\* admitted IDs are the valid IDs in none of the three lists, which are the
\* IDs no probe found an artifact of.
C1_ExactlyOneClass ==
  pc = "admitted" =>
    /\ \A v \in Range(video_ids) : ClassesOf(v) = 1
    /\ Range(new_video_ids) =
         Range(video_ids) \ (Range(existing.raw_lyrics)
                             \cup Range(existing.transcribed_lyrics)
                             \cup Range(existing.both))
    /\ \A v \in Range(video_ids) : InList(v, new_video_ids) <=> NeverSeen(v)

\* C2: when the dispatch loop of a batch has ended, the recognized IDs and
\* the admitted IDs hold no ID twice and every admitted ID has exactly one
\* worker of the batch.
C2_OneDispatchPerId ==
  pc = "respond" =>
    /\ NoDuplicates(video_ids)
    /\ NoDuplicates(new_video_ids)
    /\ \A v \in Range(new_video_ids) :
         Cardinality({ p \in WorkersOf(Len(requests)) : procs[p].cmd.arg = v }) = 1

\* The IDs of batch b, as its request yields them.
IdsOf(b) == ExtractAll(requests[b].urls, << >>, << >>).video_ids

\* C3: a batch of distinct IDs that started a worker is answered with
\* success and with the pids of the workers it started, and a launch was
\* attempted (a "starting" entry written) for every ID its batch header
\* lists, whichever launch failed.
C3_LaunchFailureIsolated ==
  \A n \in 1 .. Len(responses) :
    LET r == responses[n]
    IN  (NoDuplicates(IdsOf(r.batch)) /\ WorkersOf(r.batch) # {}) =>
          /\ r.data.success
          /\ Range(r.data.process_ids) = WorkersOf(r.batch)
          /\ \A h \in LogOf(r.batch) :
               log[h].kind = "batch" =>
                 \A v \in Range(log[h].ids) :
                   \E e \in LogOf(r.batch) :
                     log[e].kind = "starting" /\ log[e].video_id = v

\* C4: a batch (of distinct IDs) answered with success = false has started
\* no worker.
C4_NoPartialDispatch ==
  \A n \in 1 .. Len(responses) :
    (NoDuplicates(IdsOf(responses[n].batch)) /\ ~responses[n].data.success)
      => WorkersOf(responses[n].batch) = {}

\* Whether every probe of the batch found both artifacts.
AllBoth == \A n \in 1 .. Len(probed) : probed[n].has_raw /\ probed[n].has_transcribed

\* C5: a batch all of whose IDs were found with both artifacts admits
\* nothing and never enters the dispatch; a batch answered with all its IDs
\* under "both" is answered 200 with skipped = true, has started no worker
\* and has written nothing to the log.
C5_AllExistingIsNoOp ==
  /\ (pc = "admitted" /\ AllBoth) => new_video_ids = << >>
  /\ (pc \notin { "idle", "probe_raw", "probe_transcribed", "admit" } /\ AllBoth)
       => pc = "admitted"
  /\ \A n \in 1 .. Len(responses) :
       LET r == responses[n]
       IN  (/\ r.data.success
            /\ \A v \in Range(r.data.video_ids) : InList(v, r.data.existing.both))
           => /\ r.status = 200
              /\ "skipped" \in DOMAIN r.data
              /\ r.data.skipped
              /\ WorkersOf(r.batch) = {}
              /\ LogOf(r.batch) = {}

\* A batch with all its IDs under "both" has been answered as a no-op.
C5_Witness ==
  \E n \in 1 .. Len(responses) :
    /\ responses[n].data.success
    /\ responses[n].data.video_ids # << >>
    /\ \A v \in Range(responses[n].data.video_ids) :
         InList(v, responses[n].data.existing.both)
    /\ responses[n].data.skipped

\* Whether the batch being handled has not got past admission, and has
\* admitted nothing if it got there.
NoOpSoFar ==
  /\ pc \in { "probe_raw", "probe_transcribed", "admit", "admitted" }
  /\ pc = "admitted" => new_video_ids = << >>

\* Whether the batch being handled arrived after an identical batch that
\* started workers, all of which had exited with their artifact stored.
Resubmitted == \E b \in at_receive.repeats : WorkersOf(b) # {}

C7_BatchesOverlap ==
  (pc = "admitted" /\ Len(requests) < MaxBatches)
    => ENABLED (\E body \in Bodies : Receive(body))

\* C7 as amended: at most one request is between arrival and response, and
\* an ID none of whose probes found an artifact is admitted, whether or not
\* a worker started for it is still running.
C7_NoInFlightLock ==
  /\ Len(requests) - Len(responses) = (IF pc = "idle" THEN 0 ELSE 1)
  /\ pc = "admitted" =>
       \A v \in Range(video_ids) : NeverSeen(v) => InList(v, new_video_ids)

\* Two workers started for the same ID by two batches are both running.
C7_Witness ==
  \E p, q \in 1 .. Len(procs) :
    /\ procs[p].batch # procs[q].batch
    /\ procs[p].cmd.arg = procs[q].cmd.arg
    /\ procs[p].status = "running"
    /\ procs[q].status = "running"

\* C8: a call of handle_process under way can always take its next step,
\* whatever its workers are doing, and no step of the handler changes a
\* worker that is already started.
C8_FireAndForget ==
  /\ [](pc # "idle" => ENABLED HandlerStep)
  /\ [][Handler => \A p \in 1 .. Len(procs) : procs'[p] = procs[p]]_vars

\* A batch has been answered with the pids of its workers, all still running.
C8_Witness ==
  \E n \in 1 .. Len(responses) :
    /\ "process_ids" \in DOMAIN responses[n].data
    /\ \A p \in WorkersOf(responses[n].batch) : procs[p].status = "running"
    /\ Range(responses[n].data.process_ids) = WorkersOf(responses[n].batch)
    /\ pc = "idle"

\* The status C9 gives batch b: 400 when no ID was extracted, 500 when its
\* first launch failed (dispatch begun, no worker started), 200 otherwise.
ClaimedStatus(b) ==
  IF IdsOf(b) = << >> THEN 400
  ELSE IF LogOf(b) # {} /\ WorkersOf(b) = {} THEN 500
  ELSE 200

\* C9: every response (to a batch of distinct IDs) has the status the claim
\* gives its batch.
C9_StatusOfBatch ==
  \A n \in 1 .. Len(responses) :
    NoDuplicates(IdsOf(responses[n].batch))
      => responses[n].status = ClaimedStatus(responses[n].batch)

\* C10: the three lists of the existence grouping hold no ID twice, neither
\* within a list nor across lists.
C10_GroupingWithoutRepeats ==
  NoDuplicates(existing.raw_lyrics \o existing.transcribed_lyrics \o existing.both)

\* ------------------------------------------- claims about the extraction

\* Whether the text is empty or whitespace only.
Blank(u) == \A k \in 1 .. Len(u) : u[k] \in Whitespace

\* The reference shapes of a text: a bare token that is the whole text, and
\* a token after one of the markers of the URL forms.
IsToken(t) == Len(t) = IdLen /\ \A k \in 1 .. Len(t) : t[k] \in IdChars
Holds(u, t) ==
  \E i \in 1 .. Len(Markers), p \in 1 .. Len(u) :
    /\ p + Len(Markers[i]) + IdLen - 1 <= Len(u)
    /\ SubSeq(u, p, p + Len(Markers[i]) + IdLen - 1) = Markers[i] \o t
HasUrlShape(u) ==
  \E q \in 1 .. Len(u) - IdLen + 1 :
    IsToken(SubSeq(u, q, q + IdLen - 1)) /\ Holds(u, SubSeq(u, q, q + IdLen - 1))
HasShape(u) == IsToken(u) \/ HasUrlShape(u)

\* An entry that is not blank and, its surrounding whitespace aside, has
\* none of the shapes.
Malformed(u) == ~Blank(u) /\ ~HasShape(Strip(u))

\* The "urls" list of the batch being handled.
UrlsNow == requests[Len(requests)].urls

\* The batches that are answered with an invalid_urls list, and the one
\* being handled: the list each reports.
InvalidReported ==
  { << requests[responses[n].batch].urls, responses[n].data.invalid_urls >> :
      n \in { m \in 1 .. Len(responses) : "invalid_urls" \in DOMAIN responses[m].data } }
  \cup (IF pc = "idle" THEN {} ELSE { << UrlsNow, invalid_urls >> })

\* A list with f applied to each element.
Map(f(_), list) == [n \in 1 .. Len(list) |-> f(list[n])]

\* C11 as stated: the invalid_urls of a batch are its malformed entries
\* exactly as submitted, in input order.
C11_InvalidVerbatim ==
  \A io \in InvalidReported : io[2] = SelectSeq(io[1], Malformed)

\* C11 as amended: the invalid_urls of a batch are its malformed entries,
\* each without its surrounding whitespace, in input order, and no ID is
\* recognized from a malformed entry.
C11_InvalidStripped ==
  /\ \A io \in InvalidReported : io[2] = Map(Strip, SelectSeq(io[1], Malformed))
  /\ pc # "idle" =>
       Len(video_ids) = Len(UrlsNow) - Len(SelectSeq(UrlsNow, Malformed))
                                    - Len(SelectSeq(UrlsNow, Blank))

\* A batch with a malformed entry that has whitespace around it is answered.
C11_Witness ==
  \E n \in 1 .. Len(responses) :
    /\ "invalid_urls" \in DOMAIN responses[n].data
    /\ \E k \in 1 .. Len(requests[responses[n].batch].urls) :
         LET u == requests[responses[n].batch].urls[k]
         IN  Malformed(u) /\ Strip(u) # u /\ InList(Strip(u), responses[n].data.invalid_urls)

\* C12: no blank entry is reported as invalid or recognized (the reported
\* and the recognized entries are as many as the entries that are not
\* blank), every malformed entry is reported, and a batch of blank entries
\* only is answered 400 for having no valid ID, with no invalid_urls.
C12_BlankSkipped ==
  /\ \A io \in InvalidReported :
       /\ \A k \in 1 .. Len(io[2]) : ~Blank(io[2][k])
       /\ \A k \in 1 .. Len(io[1]) : Malformed(io[1][k]) => InList(Strip(io[1][k]), io[2])
  /\ pc # "idle" =>
       Len(video_ids) + Len(invalid_urls) = Len(UrlsNow) - Len(SelectSeq(UrlsNow, Blank))
  /\ \A n \in 1 .. Len(responses) :
       LET urls == requests[responses[n].batch].urls
       IN  (urls # << >> /\ \A k \in 1 .. Len(urls) : Blank(urls[k])) =>
             /\ responses[n].status = 400
             /\ responses[n].data.error = "No valid YouTube video IDs found"
             /\ responses[n].data.invalid_urls = << >>

\* A batch of an empty and a whitespace-only entry has been answered.
C12_Witness ==
  \E n \in 1 .. Len(responses) :
    LET urls == requests[responses[n].batch].urls
    IN  /\ Len(urls) = 2
        /\ urls[1] = << >>
        /\ urls[2] # << >>
        /\ Blank(urls[2])
        /\ responses[n].status = 400

\* C13 as stated: the IDs of a batch are tokens of IdLen characters of the
\* class, one for each entry that has one of the shapes as submitted, in
\* input order, each the token its entry is or holds after a marker.
C13_ShapesAsSubmitted ==
  pc # "idle" =>
    LET shaped == SelectSeq(UrlsNow, HasShape)
    IN  /\ Len(video_ids) = Len(shaped)
        /\ \A j \in 1 .. Len(video_ids) :
             /\ IsToken(video_ids[j])
             /\ j <= Len(shaped) =>
                  (shaped[j] = video_ids[j] \/ Holds(shaped[j], video_ids[j]))

\* C13 as amended: the same, the shape of an entry being taken without the
\* whitespace around the entry.
StripHasShape(u) == HasShape(Strip(u))
C13_ShapesAfterStrip ==
  pc # "idle" =>
    LET shaped == Map(Strip, SelectSeq(UrlsNow, StripHasShape))
    IN  /\ Len(video_ids) = Len(shaped)
        /\ \A j \in 1 .. Len(video_ids) :
             /\ IsToken(video_ids[j])
             /\ j <= Len(shaped) =>
                  (shaped[j] = video_ids[j] \/ Holds(shaped[j], video_ids[j]))

\* A batch of two different shapes of one token has yielded the token twice.
C13_Witness ==
  /\ pc # "idle"
  /\ Len(UrlsNow) = 2
  /\ UrlsNow[1] # UrlsNow[2]
  /\ HasUrlShape(UrlsNow[1])
  /\ IsToken(UrlsNow[2])
  /\ video_ids = << UrlsNow[2], UrlsNow[2] >>

\* The batch without its blank and its malformed entries.
Cleaned(urls) == SelectSeq(urls, StripHasShape)

\* The IDs batch b started workers for, in the order it started them.
WorkerArgs(b) ==
  LET OfBatch(p) == p.batch = b
      Arg(p) == p.cmd.arg
  IN  Map(Arg, SelectSeq(procs, OfBatch))

\* Whether response r is the full answer to a batch with a valid ID.
Outcome(r) == r.status = 200

\* C14: of two answered batches of which one is the other without its
\* blank and malformed entries (and has an entry), storage being the same
\* for both, neither is answered 400, and if both are answered 200 they
\* report the same recognized IDs, the same existence grouping and the same
\* admitted IDs and have started workers for the same IDs in the same order;
\* the malformed entries are in the invalid_urls of the first alone.
C14_InvalidItemsInert ==
  \A m, n \in 1 .. Len(responses) :
    LET rm == responses[m]
        rn == responses[n]
        um == requests[rm.batch].urls
        un == requests[rn.batch].urls
    IN  (un = Cleaned(um) /\ un # << >>) =>
          /\ rm.status # 400
          /\ (Outcome(rm) /\ Outcome(rn)) =>
               /\ rm.data.video_ids = rn.data.video_ids
               /\ rm.data.existing = rn.data.existing
               /\ DOMAIN rm.data = DOMAIN rn.data
               /\ ("new_video_ids" \in DOMAIN rm.data /\ "new_video_ids" \in DOMAIN rn.data)
                    => rm.data.new_video_ids = rn.data.new_video_ids
               /\ WorkerArgs(rm.batch) = WorkerArgs(rn.batch)
               /\ rm.data.invalid_urls = Map(Strip, SelectSeq(um, Malformed))
               /\ rn.data.invalid_urls = << >>

\* A batch with a malformed entry and the same batch without it have both
\* started their workers and been answered.
C14_Witness ==
  \E m, n \in 1 .. Len(responses) :
    LET rm == responses[m]
        rn == responses[n]
        um == requests[rm.batch].urls
        un == requests[rn.batch].urls
    IN  /\ un = Cleaned(um)
        /\ un # um
        /\ Outcome(rm)
        /\ Outcome(rn)
        /\ rm.data.invalid_urls # << >>
        /\ WorkerArgs(rm.batch) # << >>
        /\ WorkerArgs(rn.batch) # << >>

\* ------------------------------------------- claims about the dispatch

\* The elements of a list in the order of their first occurrence.
RECURSIVE FirstOccurrences(_)
FirstOccurrences(list) ==
  IF list = << >> THEN << >>
  ELSE LET front == SubSeq(list, 1, Len(list) - 1)
           last == list[Len(list)]
       IN  IF InList(last, front) THEN FirstOccurrences(front)
           ELSE Append(FirstOccurrences(front), last)

\* Whether the batch being handled has computed its admitted list.
PastAdmission == pc \in { "admitted", "header", "starting", "popen", "respond", "except" }

\* C15: the admitted IDs first occur in the admitted list in the order in
\* which they first occur in the valid-ID list; the workers of the batch
\* are started in the order of the admitted list; and a successful response
\* lists as many pids as admitted IDs, the i-th pid being that of the worker
\* the batch started for the i-th admitted ID, in start order.
C15_StableOrder ==
  /\ PastAdmission =>
       LET Admitted(v) == InList(v, new_video_ids)
       IN  FirstOccurrences(new_video_ids)
             = SelectSeq(FirstOccurrences(video_ids), Admitted)
  /\ pc \in { "starting", "popen", "respond", "except" } =>
       WorkerArgs(Len(requests)) = SubSeq(new_video_ids, 1, Len(process_pids))
  /\ \A n \in 1 .. Len(responses) :
       LET r == responses[n]
       IN  "process_ids" \in DOMAIN r.data =>
             /\ Len(r.data.process_ids) = Len(r.data.new_video_ids)
             /\ \A i \in 1 .. Len(r.data.process_ids) :
                  /\ procs[r.data.process_ids[i]].batch = r.batch
                  /\ procs[r.data.process_ids[i]].cmd.arg = r.data.new_video_ids[i]
                  /\ i > 1 => r.data.process_ids[i - 1] < r.data.process_ids[i]

\* A batch of two different IDs, both admitted, has been answered with the
\* pids of its two workers.
C15_Witness ==
  \E n \in 1 .. Len(responses) :
    /\ "process_ids" \in DOMAIN responses[n].data
    /\ Len(responses[n].data.process_ids) = 2
    /\ responses[n].data.new_video_ids[1] # responses[n].data.new_video_ids[2]

\* The batch headers and the per-job markers batch b wrote, as log positions.
HeadersOf(b) == { n \in LogOf(b) : log[n].kind = "batch" }
MarkersOf(b) == { n \in LogOf(b) : log[n].kind = "starting" }

\* The last entry of the log the server itself wrote.
LastServerEntry ==
  LET own == { n \in 1 .. Len(log) : log[n].kind \in { "batch", "starting" } }
  IN  log[CHOOSE n \in own : \A m \in own : m <= n]

\* A step that starts a worker.
Launch == Len(procs') = Len(procs) + 1

\* C16: a batch writes its header at most once, and once if it has written
\* a marker or started a worker, before all its markers; the markers of a
\* batch are for the IDs its header lists, in that order, and are as many
\* as its workers or one more; a worker is started when the last entry the
\* server wrote is the marker of that worker's ID and command, not yet
\* followed by a launch, and the launch itself writes nothing; and every
\* step leaves what the log holds in place, adding at its end only.
C16_LogProtocol ==
  /\ [](\A b \in 1 .. Len(requests) :
          /\ Cardinality(HeadersOf(b)) <= 1
          /\ (MarkersOf(b) # {} \/ WorkersOf(b) # {}) => Cardinality(HeadersOf(b)) = 1
          /\ \A h \in HeadersOf(b) :
               /\ \A e \in MarkersOf(b) : h < e
               /\ LET OfBatch(x) == x.kind = "starting" /\ x.batch = b
                      Id(x) == x.video_id
                      marked == Map(Id, SelectSeq(log, OfBatch))
                  IN  /\ Len(marked) <= Len(log[h].ids)
                      /\ marked = SubSeq(log[h].ids, 1, Len(marked))
          /\ Cardinality(MarkersOf(b)) - Cardinality(WorkersOf(b)) \in { 0, 1 })
  /\ [][Launch =>
          /\ LastServerEntry.kind = "starting"
          /\ LastServerEntry.batch = Len(requests)
          /\ LastServerEntry.video_id = procs'[Len(procs')].cmd.arg
          /\ LastServerEntry.cmd = procs'[Len(procs')].cmd
          /\ Cardinality(MarkersOf(Len(requests)))
               = Cardinality(WorkersOf(Len(requests))) + 1
          /\ log' = log]_vars
  /\ [][Len(log') >= Len(log) /\ SubSeq(log', 1, Len(log)) = log]_vars

\* A batch has started two workers, and the first worker has written to the
\* log between the two markers of the batch.
C16_Witness ==
  /\ pc = "respond"
  /\ Len(process_pids) = 2
  /\ \E e, o, f \in 1 .. Len(log) :
       /\ e < o
       /\ o < f
       /\ log[e].kind = "starting" /\ log[e].batch = Len(requests)
       /\ log[o].kind = "output" /\ log[o].pid = process_pids[1]
       /\ log[f].kind = "starting" /\ log[f].batch = Len(requests)

\* -------------------------------------------- claims about the runtime

\* The command the batch being handled holds since its runtime search.
Cached == [node_cmd |-> node_cmd, use_nvm_bash |-> use_nvm_bash]

\* C17: the workers of one batch all have the same runtime command; a batch
\* has no worker before its runtime search is done; from the search to the
\* end of the loop the command found is not changed, whatever happens to
\* the host's runtimes; and every worker is started with that command.
C17_RuntimeResolvedOnce ==
  /\ [](\A p, q \in 1 .. Len(procs) :
          procs[p].batch = procs[q].batch =>
            /\ procs[p].cmd.program = procs[q].cmd.program
            /\ procs[p].cmd.node = procs[q].cmd.node)
  /\ [](pc \in { "probe_raw", "probe_transcribed", "admit", "admitted", "header" }
          => WorkersOf(Len(requests)) = {})
  /\ [][(pc \in { "header", "starting", "popen" })
          => (node_cmd' = node_cmd /\ use_nvm_bash' = use_nvm_bash)]_vars
  /\ [][Launch =>
          procs'[Len(procs')].cmd
            = BuildCmd(node_cmd, use_nvm_bash, procs'[Len(procs')].cmd.arg)]_vars

\* A batch has started two workers and the host no longer resolves to the
\* command the batch found: its runtimes changed during the dispatch.
C17_Witness ==
  /\ pc = "respond"
  /\ Len(process_pids) = 2
  /\ ResolveNode(installed) # Cached

\* The runtimes of the nvm directory and the known paths the host has.
NvmInstalled == { n \in 1 .. Len(NvmSorted) : NvmSorted[n] \in installed }
KnownInstalled == { n \in 1 .. Len(CommonPaths) : CommonPaths[n] \in installed }

\* The step of the runtime search.
Resolving == pc = "admitted" /\ pc' = "header"

Grouped(ex, video_id, raw, transcribed) ==
  [raw_lyrics |-> IF raw /\ ~transcribed THEN Append(ex.raw_lyrics, video_id)
                  ELSE ex.raw_lyrics,
   transcribed_lyrics |-> IF transcribed /\ ~raw THEN Append(ex.transcribed_lyrics, video_id)
                          ELSE ex.transcribed_lyrics,
   both |-> IF raw /\ transcribed THEN Append(ex.both, video_id) ELSE ex.both]

\* C19: every batch starts its probing with an empty grouping; each test of
\* a tier gives what that directory holds at the moment of the test, and
\* the ID is grouped by the two tests just made; the admitted IDs are the
\* valid IDs whose tests found nothing, whatever earlier batches were told.
C19_FreshExistence ==
  /\ []((pc = "probe_raw" /\ vi = 1) => existing = NoExisting)
  /\ [][(pc = "probe_raw" /\ pc' = "probe_transcribed")
          => has_raw' = (FileName(video_ids[vi]) \in raw_lyrics)]_vars
  /\ [][(pc = "probe_transcribed" /\ pc' # "probe_transcribed")
          => existing' = Grouped(existing, video_ids[vi], has_raw,
                                 FileName(video_ids[vi]) \in transcribed_lyrics)]_vars
  /\ [](PastAdmission =>
          \A j \in 1 .. Len(video_ids) :
            InList(video_ids[j], new_video_ids)
              <=> /\ ~InList(video_ids[j], existing.raw_lyrics)
                  /\ ~InList(video_ids[j], existing.transcribed_lyrics)
                  /\ ~InList(video_ids[j], existing.both))

\* A batch admits an ID that an earlier batch was told to exist, the
\* artifact having been removed since.
C19_Witness ==
  /\ pc = "admitted"
  /\ removals > 0
  /\ \E n \in 1 .. Len(responses) :
       /\ "skipped" \in DOMAIN responses[n].data
       /\ \E v \in Range(new_video_ids) : InList(v, responses[n].data.video_ids)

\* The number of times x occurs in a list.
Occurrences(x, list) == Cardinality({ n \in 1 .. Len(list) : list[n] = x })

\* The workers batch b started for video_id.
WorkersFor(b, video_id) == { p \in WorkersOf(b) : procs[p].cmd.arg = video_id }

\* The answered batches that dispatched all they admitted.
Dispatched == { n \in 1 .. Len(responses) : "process_ids" \in DOMAIN responses[n].data }

ServerEntries == { n \in 1 .. Len(log) : log[n].kind \in { "batch", "starting" } }

\* A step of the handler that is not the arrival of a request.
Handling == pc # "idle" /\ (pc' # pc \/ Len(responses') # Len(responses))

\* C21: a request is taken up only when no request is being handled, all
\* requests before it being answered; the steps of the handler belong to
\* the request taken up last, whose answer is the next response; the n-th
\* response answers the n-th request; a worker belongs to a batch that was
\* taken up before every later batch began; and between two log entries the
\* server wrote for one batch, every entry the server wrote is of that batch.
C21_OneBatchAtATime ==
  /\ [][Len(requests') # Len(requests) =>
          /\ pc = "idle"
          /\ Len(responses) = Len(requests)
          /\ Len(requests') = Len(requests) + 1]_vars
  /\ [][Handling =>
          /\ Len(requests') = Len(requests)
          /\ Len(responses) = Len(requests) - 1
          /\ Len(responses') # Len(responses) =>
               /\ pc' = "idle"
               /\ responses'[Len(responses')].batch = Len(requests)
          /\ Len(log') # Len(log) =>
               /\ log'[Len(log')].kind \in { "batch", "starting" }
               /\ log'[Len(log')].batch = Len(requests)
          /\ Launch => procs'[Len(procs')].batch = Len(requests)]_vars
  /\ [](\A n \in 1 .. Len(responses) : responses[n].batch = n)
  /\ [](\A i, j, k \in ServerEntries :
          (i < j /\ j < k /\ log[i].batch = log[k].batch) => log[j].batch = log[i].batch)
  /\ [](\A i, j \in ServerEntries : i < j => log[i].batch <= log[j].batch)

\* A worker of the first batch has written to the log between the header
\* and a marker of the second batch.
C21_Witness ==
  \E h, o, e \in 1 .. Len(log) :
    /\ h < o
    /\ o < e
    /\ log[h].kind = "batch" /\ log[h].batch = 2
    /\ log[o].kind = "output" /\ log[o].batch = 1
    /\ log[e].kind = "starting" /\ log[e].batch = 2

\* -------------------------------------- claims about the worker command

\* Whether video_id is in one of the three lists of a grouping.
Grouping(ex, video_id) ==
  \/ InList(video_id, ex.raw_lyrics)
  \/ InList(video_id, ex.transcribed_lyrics)
  \/ InList(video_id, ex.both)

\* C22 (storage is fixed here, so an ID that has an artifact had it when
\* its batch was probed): every worker, started with the runtime directly
\* or through the shell wrapper, is given the flag --skip-existing and one
\* argument, which is a token of IdLen characters of the class, is one of
\* the IDs extracted from the input of the worker's batch, is listed by the
\* header of that batch, is no malformed entry of the batch, has no
\* artifact and is in no list of the grouping of that batch.
C22_WorkerArgument ==
  \A p \in 1 .. Len(procs) :
    LET c == procs[p].cmd
        b == procs[p].batch
        urls == requests[b].urls
    IN  /\ c.flag = "--skip-existing"
        /\ IsToken(c.arg)
        /\ InList(c.arg, IdsOf(b))
        /\ \E h \in HeadersOf(b) : InList(c.arg, log[h].ids)
        /\ \A k \in 1 .. Len(urls) : Malformed(urls[k]) => c.arg # Strip(urls[k])
        /\ ~Stored(c.arg)
        /\ (b = Len(requests) /\ pc # "idle") => ~Grouping(existing, c.arg)
        /\ \A n \in 1 .. Len(responses) :
             (responses[n].batch = b /\ "existing" \in DOMAIN responses[n].data)
               => ~Grouping(responses[n].data.existing, c.arg)

\* A batch of an ID that has an artifact and an ID that has none has started
\* its one worker through the shell wrapper.
C22_Witness ==
  \E p \in 1 .. Len(procs) :
    /\ procs[p].cmd.program = "bash"
    /\ \E v \in Range(IdsOf(procs[p].batch)) : Stored(v)
    /\ Cardinality(WorkersOf(procs[p].batch)) = 1
    /\ \E n \in Dispatched : responses[n].batch = procs[p].batch

====
